---- MODULE Spec2Model ----
(***************************************************************************)
(* The daily-quiz server of src/server.js as a state machine.              *)
(*                                                                         *)
(* The two MongoDB collections are the sequences users and problems, in    *)
(* insertion (natural) order; the _id of a document is its position.       *)
(* Every handler is an async function: the code between two awaits runs    *)
(* without interruption, and each awaited database call is one atomic      *)
(* step, so that the handlers of concurrent requests interleave at their   *)
(* awaits.  A handler that awaits once is one action; the two handlers     *)
(* that await more than once (login, solve) keep their position in pc and  *)
(* their local variables in req and loc.                                   *)
(*                                                                         *)
(* Strings that the code takes apart or puts together (the submitted       *)
(* answer given to parseInt, a name concatenated with Date.now()) are      *)
(* sequences of one-character strings.                                     *)
(***************************************************************************)
EXTENDS Integers, Sequences, FiniteSets

VARIABLES users, problems, now, pc, req, loc, last, lastLogin

vars == <<users, problems, now, pc, req, loc, last, lastLogin>>

(***************************************************************************)
(* Bounds of the model.                                                    *)
(***************************************************************************)
\* concurrent requests in flight
NumProcs == 2
\* user documents ever created
MaxUsers == 2
\* solve requests that get as far as storing a solver record
MaxSolves == 2
\* the clock (Date.now(), new Date()) runs over 0..MaxTime
MaxTime == 1

Procs == 1..NumProcs

(***************************************************************************)
(* JSON values of a request body: undefined (the field is absent), a       *)
(* number, or a string.                                                    *)
(***************************************************************************)
Undef == [type |-> "undefined", num |-> 0, str |-> <<>>]
Num(n) == [type |-> "number", num |-> n, str |-> <<>>]
Str(s) == [type |-> "string", num |-> 0, str |-> s]

\* JavaScript's !v
Falsy(v) ==
    \/ v.type = "undefined"
    \/ v.type = "number" /\ v.num = 0
    \/ v.type = "string" /\ v.str = <<>>

\* a string field of the body that is absent (or empty): !field is true
Missing == ""

(***************************************************************************)
(* A field of a query filter that comes from the request body, which       *)
(* express.json() parses: a plain value v, which a document matches when   *)
(* its field equals v, or an object of a query operator such as            *)
(* {"$ne": v}, which Mongoose passes on to the store as the operator.      *)
(***************************************************************************)
Eq(v) == [op |-> "$eq", arg |-> v]
Ne(v) == [op |-> "$ne", arg |-> v]

\* the document's field satisfies the condition c of the filter
Matches(field, c) == IF c.op = "$ne" THEN field # c.arg ELSE field = c.arg

DigitChars == <<"0", "1", "2", "3", "4", "5", "6", "7", "8", "9">>

IsDigit(c) == \E i \in 1..10 : DigitChars[i] = c

RECURSIVE NatToStr(_)
NatToStr(n) ==
    IF n < 10 THEN <<DigitChars[n + 1]>>
    ELSE NatToStr(n \div 10) \o <<DigitChars[(n % 10) + 1]>>

\* String(n) of an integer
IntToStr(n) == IF n < 0 THEN <<"-">> \o NatToStr(-n) ELSE NatToStr(n)

\* String(v)
JsString(v) ==
    CASE v.type = "undefined" -> <<"u", "n", "d", "e", "f", "i", "n", "e", "d">>
      [] v.type = "number" -> IntToStr(v.num)
      [] OTHER -> v.str

\* StrWhiteSpaceChar: the white space and line terminator characters that
\* parseInt and Number() skip.  Those that a TLA+ string cannot hold are
\* named by their code point.
WhiteSpaceChars ==
    {" ", "\t", "\n", "\r", "\f", "U+000B", "U+00A0", "U+FEFF", "U+2028",
     "U+2029", "U+1680", "U+2000", "U+2001", "U+2002", "U+2003", "U+2004",
     "U+2005", "U+2006", "U+2007", "U+2008", "U+2009", "U+200A", "U+202F",
     "U+205F", "U+3000"}

IsSpace(c) == c \in WhiteSpaceChars

RECURSIVE TrimLeft(_)
TrimLeft(s) ==
    IF s # <<>> /\ IsSpace(Head(s)) THEN TrimLeft(Tail(s)) ELSE s

RECURSIVE TrimRight(_)
TrimRight(s) ==
    IF s # <<>> /\ IsSpace(s[Len(s)])
    THEN TrimRight(SubSeq(s, 1, Len(s) - 1)) ELSE s

\* the value of c as a digit of the radices up to 16, in lower or in upper
\* case; 16 when c is no digit
RadixVal(c) ==
    CASE c = "0" -> 0 [] c = "1" -> 1 [] c = "2" -> 2 [] c = "3" -> 3
      [] c = "4" -> 4 [] c = "5" -> 5 [] c = "6" -> 6 [] c = "7" -> 7
      [] c = "8" -> 8 [] c = "9" -> 9
      [] c \in {"a", "A"} -> 10 [] c \in {"b", "B"} -> 11
      [] c \in {"c", "C"} -> 12 [] c \in {"d", "D"} -> 13
      [] c \in {"e", "E"} -> 14 [] c \in {"f", "F"} -> 15
      [] OTHER -> 16

\* c is a digit of radix R
IsRadixDigit(c, R) == RadixVal(c) < R

\* the value of the longest prefix of s of digits of radix R, after acc
RECURSIVE DigitsValue(_, _, _)
DigitsValue(s, acc, R) ==
    IF s # <<>> /\ IsRadixDigit(Head(s), R)
    THEN DigitsValue(Tail(s), acc * R + RadixVal(Head(s)), R)
    ELSE acc

\* the length of the longest prefix of s of digits of radix R
RECURSIVE DigitsLen(_, _)
DigitsLen(s, R) ==
    IF s # <<>> /\ IsRadixDigit(Head(s), R) THEN 1 + DigitsLen(Tail(s), R)
    ELSE 0

\* s begins with 0 and one of the two letters
HasPrefix(s, letters) == Len(s) >= 2 /\ s[1] = "0" /\ s[2] \in letters

NaN == [nan |-> TRUE, val |-> 0]

\* parseInt(v) without a radix: String(v), leading white space skipped, an
\* optional sign, 0x or 0X for radix 16, then the longest prefix of digits
\* of the radix; NaN when there is no digit
ParseInt(v) ==
    LET s == TrimLeft(JsString(v))
        neg == s # <<>> /\ Head(s) = "-"
        body == IF s # <<>> /\ Head(s) \in {"-", "+"} THEN Tail(s) ELSE s
        hex == HasPrefix(body, {"x", "X"})
        R == IF hex THEN 16 ELSE 10
        digits == IF hex THEN SubSeq(body, 3, Len(body)) ELSE body
    IN  IF digits = <<>> \/ ~IsRadixDigit(Head(digits), R) THEN NaN
        ELSE [nan |-> FALSE,
              val |-> IF neg THEN -DigitsValue(digits, 0, R)
                      ELSE DigitsValue(digits, 0, R)]

(***************************************************************************)
(* Number(s) of a string, as the cast of a Number path of a schema applies *)
(* it.  The result is NaN, an integer (int, val), or a number that is no   *)
(* integer (a fraction or an infinity: int is FALSE and val the integer    *)
(* part, 0 for an infinity).                                               *)
(***************************************************************************)
NotANumber == [nan |-> TRUE, int |-> FALSE, val |-> 0]
Integer(n) == [nan |-> FALSE, int |-> TRUE, val |-> n]
Fraction(n) == [nan |-> FALSE, int |-> FALSE, val |-> n]

RECURSIVE Pow10(_)
Pow10(k) == IF k = 0 THEN 1 ELSE 10 * Pow10(k - 1)

\* NonDecimalIntegerLiteral: the digits after 0x, 0o or 0b, all of radix R
NonDecimal(digits, R) ==
    IF digits # <<>> /\ DigitsLen(digits, R) = Len(digits)
    THEN Integer(DigitsValue(digits, 0, R))
    ELSE NotANumber

\* StrUnsignedDecimalLiteral: Infinity, or digits with an optional fraction
\* and an optional exponent, at least one digit before or after the point
UnsignedDecimal(u, neg) ==
    LET i == DigitsLen(u, 10)
        r1 == SubSeq(u, i + 1, Len(u))
        hasDot == r1 # <<>> /\ Head(r1) = "."
        r2 == IF hasDot THEN Tail(r1) ELSE r1
        f == IF hasDot THEN DigitsLen(r2, 10) ELSE 0
        r3 == SubSeq(r2, f + 1, Len(r2))
        hasExp == r3 # <<>> /\ Head(r3) \in {"e", "E"}
        r4 == IF hasExp THEN Tail(r3) ELSE r3
        eneg == hasExp /\ r4 # <<>> /\ Head(r4) = "-"
        r5 == IF hasExp /\ r4 # <<>> /\ Head(r4) \in {"+", "-"}
              THEN Tail(r4) ELSE r4
        e == DigitsLen(r5, 10)
        ok == /\ i + f > 0
              /\ IF hasExp THEN e > 0 /\ e = Len(r5) ELSE r3 = <<>>
        mant == DigitsValue(SubSeq(u, 1, i) \o SubSeq(r2, 1, f), 0, 10)
        ex == (IF ~hasExp THEN 0
               ELSE IF eneg THEN -DigitsValue(r5, 0, 10)
               ELSE DigitsValue(r5, 0, 10)) - f
        sign == IF neg THEN -1 ELSE 1
    IN  IF u = <<"I", "n", "f", "i", "n", "i", "t", "y">> THEN Fraction(0)
        ELSE IF ~ok THEN NotANumber
        ELSE IF ex >= 0 THEN Integer(sign * mant * Pow10(ex))
        ELSE IF mant % Pow10(-ex) = 0 THEN Integer(sign * (mant \div Pow10(-ex)))
        ELSE Fraction(sign * (mant \div Pow10(-ex)))

\* Number(s): white space at both ends skipped; nothing left is 0; 0x, 0o
\* and 0b (no sign) for the radices 16, 8 and 2; else a decimal literal with
\* an optional sign; NaN when the whole string is none of these
ToNumber(s) ==
    LET t == TrimRight(TrimLeft(s))
        rest == SubSeq(t, 3, Len(t))
        signed == t # <<>> /\ Head(t) \in {"+", "-"}
    IN  IF t = <<>> THEN Integer(0)
        ELSE IF HasPrefix(t, {"x", "X"}) THEN NonDecimal(rest, 16)
        ELSE IF HasPrefix(t, {"o", "O"}) THEN NonDecimal(rest, 8)
        ELSE IF HasPrefix(t, {"b", "B"}) THEN NonDecimal(rest, 2)
        ELSE UnsignedDecimal(IF signed THEN Tail(t) ELSE t, Head(t) = "-")

\* line 46: the cast of answer to Number.  A number stays; a string goes
\* through Number(), the empty string and an absent value become null,
\* which required: true refuses as it refuses NaN.
CastNumber(v) ==
    CASE v.type = "number" -> Integer(v.num)
      [] v.type = "string" /\ v.str # <<>> -> ToNumber(v.str)
      [] OTHER -> NotANumber

(***************************************************************************)
(* The inputs of the requests.                                             *)
(***************************************************************************)
\* stands for the reserved admin display name of line 70
AdminName == <<"A", "d", "m">>
Names == {<<"k">>, AdminName}
AdminUserId == <<"1", "2", "3", "4", "a", "a">>
AdminPassword == "wj211@"
NoPassword == ""
Dates == {"d1", "d2"}
\* create requests <<date, question, answer>>: a complete request for each
\* date, requests that lack a field or carry the answer 0, and requests
\* whose answer is a string, of a number and of none
CreateInputs(D) ==
    {c \in {<<"d1", "q", Num(7)>>, <<"d2", "q", Num(3)>>,
            <<Missing, "q", Num(7)>>, <<"d1", Missing, Num(7)>>,
            <<"d1", "q", Undef>>, <<"d1", "q", Num(0)>>,
            <<"d1", "q", Str(<<"7">>)>>, <<"d1", "q", Str(<<"a", "b", "c">>)>>} :
        c[1] \in D \cup {Missing}}
\* a create request whose answer is the string of the number 0
ZeroStringCreates == {<<"d1", "q", Str(<<"0">>)>>}
SolveAnswers == {Num(7), Num(3)}
\* answers that are not numbers: digits followed by a letter, letters,
\* absent, a tab before the digit, a hexadecimal prefix with and without
\* digits
NonNumericAnswers ==
    {Str(<<"7", "a">>), Str(<<"a", "b">>), Undef, Str(<<"\t", "7">>),
     Str(<<"0", "x", "7">>), Str(<<"0", "x">>)}
Logins == Names \X BOOLEAN
\* _id values a request can send: well-formed ObjectIds, of a document or
\* (beyond Len(users)) of none
UserRefs == 1..MaxUsers
\* a userId that is no ObjectId, such as "abc": Mongoose cannot cast it to
\* the type of _id
MalformedId == -1
\* the userId values of the solve requests
UserIds == UserRefs \cup {MalformedId}

\* latestQuizDate of a user who has none (MongoDB sorts it before any date)
NoDate == -1

(***************************************************************************)
(* Queries.                                                                *)
(***************************************************************************)
\* Model.findOne(filter): the first document in natural order, 0 for null
FirstIndex(matching) ==
    IF matching = {} THEN 0
    ELSE CHOOSE i \in matching : \A j \in matching : i <= j

FindUserByName(name) ==
    FirstIndex({i \in 1..Len(users) : users[i].name = name})

FindById(id) == IF id \in 1..Len(users) THEN id ELSE 0

\* line 144: findById casts its argument to an ObjectId before it asks the
\* store, and rejects (CastError) when the argument is none
CastObjectIdFails(id) == id = MalformedId

FindProblemByDate(date) ==
    FirstIndex({i \in 1..Len(problems) : problems[i].date = date})

FindAdmin(id, password) ==
    FirstIndex({i \in 1..Len(users) :
                  /\ Matches(users[i].userId, id)
                  /\ Matches(users[i].password, password)
                  /\ users[i].isAdmin})

\* line 34 without unique: true
DuplicateUserIdAllowed(userId) == FALSE

\* the unique index on userId
DuplicateUserId(userId) == \E i \in 1..Len(users) : users[i].userId = userId

\* the unique index on date
DuplicateDate(date) == \E i \in 1..Len(problems) : problems[i].date = date

\* user.toObject() without the password
SanitizedDoc(i, u) ==
    [_id |-> i, userId |-> u.userId, name |-> u.name, isAdmin |-> u.isAdmin,
     score |-> u.score, latestQuizDate |-> u.latestQuizDate]

Sanitized(i) == SanitizedDoc(i, users[i])

(***************************************************************************)
(* State.                                                                  *)
(***************************************************************************)
NoReq == [kind |-> "none", name |-> <<>>, isAdminInit |-> FALSE,
          id |-> Eq(<<>>), password |-> Eq(""), date |-> "", question |-> "",
          userId |-> 0, answer |-> Undef]

LoginReq(name, isAdminInit) ==
    [NoReq EXCEPT !.kind = "login", !.name = name, !.isAdminInit = isAdminInit]

AuthReq(id, password) ==
    [NoReq EXCEPT !.kind = "auth", !.id = id, !.password = password]

CreateReq(date, question, answer) ==
    [NoReq EXCEPT !.kind = "create", !.date = date, !.question = question,
                  !.answer = answer]

SolveReq(date, userId, answer) ==
    [NoReq EXCEPT !.kind = "solve", !.date = date, !.userId = userId,
                  !.answer = answer]

NoLoc == [problem |-> 0, answer |-> Integer(0), solvers |-> <<>>, user |-> 0,
          name |-> <<>>, score |-> 0, isCorrect |-> FALSE,
          latestQuizDate |-> NoDate, userId |-> <<>>, prev |-> 0, read |-> 0,
          raced |-> FALSE]

\* loc.read is the score that findById returned, kept beside the copy of it
\* that the handler changes (loc.score)
\*
\* loc.raced records history that the program does not keep: the handler and
\* another one, of a solve request of the same user for the same quiz, had
\* both passed the check of line 149 before either saved the quiz
\*
\* last is the response sent most recently, with the request it answers;
\* prev is, for a login, the _id that the latest login with the same name
\* had returned when this one arrived (0 for none)
NoResponse == [kind |-> "none", status |-> 0, req |-> NoReq, body |-> <<>>,
               prev |-> 0]

Response(r, status, body) ==
    [kind |-> r.kind, status |-> status, req |-> r, body |-> body, prev |-> 0]

Init ==
    /\ users = <<>>
    /\ problems = <<>>
    /\ now = 0
    /\ pc = [p \in Procs |-> "idle"]
    /\ req = [p \in Procs |-> NoReq]
    /\ loc = [p \in Procs |-> NoLoc]
    /\ last = NoResponse
    /\ lastLogin = [n \in Names |-> 0]

\* the handler of p has sent its response
Finish(p) ==
    /\ pc' = [pc EXCEPT ![p] = "idle"]
    /\ req' = [req EXCEPT ![p] = NoReq]
    /\ loc' = [loc EXCEPT ![p] = NoLoc]

\* now is the latest time that a handler has read from the clock; a handler
\* that reads the clock finds any time t from now on
ClockReads(t) == t \in now..MaxTime /\ now' = t

(***************************************************************************)
(* POST /api/users/login                                                   *)
(***************************************************************************)
\* line 63: no name
LoginNoName(p, isAdminInit) ==
    /\ pc[p] = "idle"
    /\ last' = Response(LoginReq(<<>>, isAdminInit), 400, "name required")
    /\ UNCHANGED <<users, problems, now, pc, req, loc, lastLogin>>

\* lines 66, 79-80: findOne finds the user
LoginFound(p, name, isAdminInit) ==
    LET u == FindUserByName(name)
    IN  /\ pc[p] = "idle"
        /\ u # 0
        /\ last' = [Response(LoginReq(name, isAdminInit), 200, Sanitized(u))
                       EXCEPT !.prev = lastLogin[name]]
        /\ lastLogin' = [lastLogin EXCEPT ![name] = u]
        /\ UNCHANGED <<users, problems, now, pc, req, loc>>

\* lines 70-74: the document that User.create is called with
IsAdminInit(name, isAdminInit) == name = AdminName /\ isAdminInit

NewUserId(name, isAdminInit, t) ==
    IF IsAdminInit(name, isAdminInit) THEN AdminUserId
    ELSE name \o IntToStr(t)

\* lines 66-74: findOne finds nobody, User.create is called
LoginNotFound(p, name, isAdminInit, t) ==
    /\ pc[p] = "idle"
    /\ IF IsAdminInit(name, isAdminInit) THEN t = now /\ now' = now
       ELSE ClockReads(t)
    /\ FindUserByName(name) = 0
    /\ Len(users) + Cardinality({q \in Procs : pc[q] = "login_create"}) < MaxUsers
    /\ pc' = [pc EXCEPT ![p] = "login_create"]
    /\ req' = [req EXCEPT ![p] = LoginReq(name, isAdminInit)]
    /\ loc' = [loc EXCEPT ![p] = [NoLoc EXCEPT
                                     !.userId = NewUserId(name, isAdminInit, t),
                                     !.prev = lastLogin[name]]]
    /\ UNCHANGED <<users, problems, last, lastLogin>>

\* lines 72, 74 and the defaults of UserSchema
NewUser(r, userId) ==
    [userId |-> userId, name |-> r.name,
     password |-> IF IsAdminInit(r.name, r.isAdminInit) THEN AdminPassword
                  ELSE NoPassword,
     isAdmin |-> IsAdminInit(r.name, r.isAdminInit), score |-> 0,
     latestQuizDate |-> NoDate]

\* lines 72, 74, 79-82: the insert, refused by the unique index on userId
LoginCreate(p) ==
    /\ pc[p] = "login_create"
    /\ IF DuplicateUserId(loc[p].userId)
       THEN /\ last' = Response(req[p], 500, "E11000")
            /\ UNCHANGED <<users, lastLogin>>
       ELSE /\ users' = Append(users, NewUser(req[p], loc[p].userId))
            /\ last' = [Response(req[p], 200,
                                 SanitizedDoc(Len(users) + 1,
                                              NewUser(req[p], loc[p].userId)))
                           EXCEPT !.prev = loc[p].prev]
            /\ lastLogin' = [lastLogin EXCEPT ![req[p].name] = Len(users) + 1]
    /\ Finish(p)
    /\ UNCHANGED <<problems, now>>

(***************************************************************************)
(* POST /api/admin/auth                                                    *)
(***************************************************************************)
\* bodies {id, password} of strings
AuthInputs ==
    {<<Eq(AdminUserId), Eq(AdminPassword)>>, <<Eq(AdminUserId), Eq("guess")>>,
     <<Eq(AdminUserId), Eq(Missing)>>, <<Eq(<<"k", "0">>), Eq(AdminPassword)>>}

\* the body {id: {"$ne": "x"}, password: {"$ne": "x"}}
AuthOperatorInputs == {<<Ne(<<"x">>), Ne("x")>>}

AdminAuth(p, id, password) ==
    LET u == FindAdmin(id, password)
    IN  /\ pc[p] = "idle"
        /\ last' = IF u # 0 THEN Response(AuthReq(id, password), 200, Sanitized(u))
                   ELSE Response(AuthReq(id, password), 401, "auth failed")
        /\ UNCHANGED <<users, problems, now, pc, req, loc, lastLogin>>

(***************************************************************************)
(* GET /api/users                                                          *)
(***************************************************************************)
\* sort({score: 1, latestQuizDate: 1})
SortsBeforeAscending(a, b) ==
    \/ a.score < b.score
    \/ a.score = b.score /\ a.latestQuizDate < b.latestQuizDate

\* sort({score: -1, latestQuizDate: 1}): a comes before b
SortsBefore(a, b) ==
    \/ a.score > b.score
    \/ a.score = b.score /\ a.latestQuizDate < b.latestQuizDate

\* x put into the sorted sequence s, after the elements it does not precede
RECURSIVE InsertSorted(_, _)
InsertSorted(x, s) ==
    IF s = <<>> THEN <<x>>
    ELSE IF SortsBefore(x, Head(s)) THEN <<x>> \o s
    ELSE <<Head(s)>> \o InsertSorted(x, Tail(s))

RECURSIVE SortUsers(_)
SortUsers(s) ==
    IF s = <<>> THEN <<>>
    ELSE InsertSorted(s[Len(s)], SortUsers(SubSeq(s, 1, Len(s) - 1)))

\* find({isAdmin: false}): the matching documents in natural order
RECURSIVE NonAdmins(_)
NonAdmins(i) ==
    IF i > Len(users) THEN <<>>
    ELSE IF users[i].isAdmin THEN NonAdmins(i + 1)
    ELSE <<Sanitized(i)>> \o NonAdmins(i + 1)

Leaderboard == SortUsers(NonAdmins(1))

GetUsers(p) ==
    /\ pc[p] = "idle"
    /\ last' = Response([NoReq EXCEPT !.kind = "users"], 200, Leaderboard)
    /\ UNCHANGED <<users, problems, now, pc, req, loc, lastLogin>>

(***************************************************************************)
(* POST /api/problems                                                      *)
(***************************************************************************)
\* line 125
CreateInvalid(date, question, answer) ==
    date = Missing \/ question = Missing \/ Falsy(answer)

CreateQuizInvalid(p, date, question, answer) ==
    /\ pc[p] = "idle"
    /\ CreateInvalid(date, question, answer)
    /\ last' = Response(CreateReq(date, question, answer), 400, "all fields required")
    /\ UNCHANGED <<users, problems, now, pc, req, loc, lastLogin>>

\* lines 46, 128: the document that Problem.create makes of the body, its
\* answer cast to Number
NewProblem(date, question, answer) ==
    [date |-> date, question |-> question, answer |-> CastNumber(answer),
     solvers |-> <<>>]

\* lines 128-132: Problem.create validates the document, which fails when
\* the answer is no number (500), and then inserts it, which the unique
\* index on date refuses (409)
CreateQuiz(p, date, question, answer) ==
    /\ pc[p] = "idle"
    /\ ~CreateInvalid(date, question, answer)
    /\ IF NewProblem(date, question, answer).answer.nan
       THEN /\ last' = Response(CreateReq(date, question, answer), 500,
                                "validation failed")
            /\ UNCHANGED problems
       ELSE IF DuplicateDate(date)
       THEN /\ last' = Response(CreateReq(date, question, answer), 409, "exists")
            /\ UNCHANGED problems
       ELSE /\ problems' = Append(problems, NewProblem(date, question, answer))
            /\ last' = Response(CreateReq(date, question, answer), 201,
                                NewProblem(date, question, answer))
    /\ UNCHANGED <<users, now, pc, req, loc, lastLogin>>

(***************************************************************************)
(* POST /api/problems/:date/solve                                          *)
(***************************************************************************)
\* the solver records stored in the first i quizzes
RECURSIVE Stored(_)
Stored(i) == IF i = 0 THEN 0 ELSE Len(problems[i].solvers) + Stored(i - 1)

\* line 142: Problem.findOne({date}); problem is the handler's own copy
SolveFindProblem(p, date, userId, answer, S) ==
    LET i == FindProblemByDate(date)
    IN  /\ pc[p] = "idle"
        /\ Stored(Len(problems))
             + Cardinality({q \in Procs : req[q].kind = "solve"}) < S
        /\ pc' = [pc EXCEPT ![p] = "solve_findUser"]
        /\ req' = [req EXCEPT ![p] = SolveReq(date, userId, answer)]
        /\ loc' = [loc EXCEPT ![p] =
                      IF i = 0 THEN NoLoc
                      ELSE [NoLoc EXCEPT !.problem = i,
                                         !.answer = problems[i].answer,
                                         !.solvers = problems[i].solvers]]
        /\ UNCHANGED <<users, problems, now, last, lastLogin>>

\* line 149 with === in place of equals(): two ObjectId objects are never
\* identical
AlreadySolvedByIdentity(solvers, id) == \E k \in 1..Len(solvers) : FALSE

\* line 149
AlreadySolved(solvers, id) == \E k \in 1..Len(solvers) : solvers[k].userId = id

\* line 152 with = in place of ===: the value of the assignment, true for
\* every number but 0
IsCorrectByAssignment(answer, submitted) ==
    LET n == ParseInt(submitted) IN ~n.nan /\ n.val # 0

\* line 152
IsCorrect(answer, submitted) ==
    LET n == ParseInt(submitted)
    IN  ~n.nan /\ answer.int /\ answer.val = n.val

\* line 146: !problem || !user
NotFound(problem, user) == problem = 0 \/ user = 0

\* lines 144, 172-173: User.findById rejects a userId that is no ObjectId,
\* whether the quiz was found or not, and the catch block answers 500
SolveCastError(p) ==
    /\ pc[p] = "solve_findUser"
    /\ CastObjectIdFails(req[p].userId)
    /\ last' = Response(req[p], 500, "cast error")
    /\ Finish(p)
    /\ UNCHANGED <<users, problems, now, lastLogin>>

\* lines 144-146: User.findById, no quiz or no user
SolveNotFound(p) ==
    /\ pc[p] = "solve_findUser"
    /\ ~CastObjectIdFails(req[p].userId)
    /\ NotFound(loc[p].problem, FindById(req[p].userId))
    /\ last' = Response(req[p], 404, "not found")
    /\ Finish(p)
    /\ UNCHANGED <<users, problems, now, lastLogin>>

\* lines 144-150: User.findById, the user is among the solvers read
SolveAlreadySolved(p) ==
    LET u == FindById(req[p].userId)
    IN  /\ pc[p] = "solve_findUser"
        /\ ~CastObjectIdFails(req[p].userId)
        /\ ~NotFound(loc[p].problem, u)
        /\ AlreadySolved(loc[p].solvers, u)
        /\ last' = Response(req[p], 400, "already solved")
        /\ Finish(p)
        /\ UNCHANGED <<users, problems, now, lastLogin>>

\* the handlers that have passed the check of line 149 for user u and the
\* quiz that p has read, and have not saved the quiz
Racers(p, u) ==
    {q \in Procs \ {p} : /\ pc[q] = "solve_saveProblem"
                          /\ loc[q].user = u
                          /\ loc[q].problem = loc[p].problem}

\* lines 144-160: User.findById, then the push onto the handler's copy
SolveFindUser(p) ==
    LET u == FindById(req[p].userId)
        found == [loc[p] EXCEPT
                     !.user = u,
                     !.name = users[u].name,
                     !.score = users[u].score,
                     !.read = users[u].score,
                     !.isCorrect = IsCorrect(loc[p].answer, req[p].answer),
                     !.raced = Racers(p, u) # {}]
    IN  /\ pc[p] = "solve_findUser"
        /\ ~CastObjectIdFails(req[p].userId)
        /\ ~NotFound(loc[p].problem, u)
        /\ ~AlreadySolved(loc[p].solvers, u)
        /\ pc' = [pc EXCEPT ![p] = "solve_saveProblem"]
        /\ loc' = [q \in Procs |->
                      IF q = p THEN found
                      ELSE IF q \in Racers(p, u)
                      THEN [loc[q] EXCEPT !.raced = TRUE]
                      ELSE loc[q]]
        /\ UNCHANGED <<users, problems, now, req, last, lastLogin>>

\* lines 155-160 with isCorrect: true in place of the variable
SolverEntryCorrect(l) ==
    [userId |-> l.user, name |-> l.name, isCorrect |-> TRUE]

\* lines 155-160: the element pushed (solvedAt, which nothing reads, is left
\* out)
SolverEntry(l) ==
    [userId |-> l.user, name |-> l.name, isCorrect |-> l.isCorrect]

\* line 161 if save() sent the whole array of the handler's copy ($set)
SavedSolversOverwrite(stored, l) == Append(l.solvers, SolverEntry(l))

\* line 161: problem.save() sends the push of the new element ($push), which
\* the store applies to the array it holds
SavedSolvers(stored, l) == Append(stored, SolverEntry(l))

\* line 166 with = in place of +=
ScoreAfterAssigned(score) == 1

\* line 166
ScoreAfter(score) == score + 1

\* lines 161-171, isCorrect: the quiz is saved, the user's copy is changed
SolveSaveProblemCorrect(p, t) ==
    /\ pc[p] = "solve_saveProblem"
    /\ ClockReads(t)
    /\ loc[p].isCorrect
    /\ problems' = [problems EXCEPT ![loc[p].problem].solvers =
                       SavedSolvers(@, loc[p])]
    /\ pc' = [pc EXCEPT ![p] = "solve_saveUser"]
    /\ loc' = [loc EXCEPT ![p].score = ScoreAfter(@),
                          ![p].latestQuizDate = t]
    /\ UNCHANGED <<users, req, last, lastLogin>>

\* lines 161-171, not isCorrect: the quiz is saved, the response is sent
SolveSaveProblemWrong(p) ==
    /\ pc[p] = "solve_saveProblem"
    /\ ~loc[p].isCorrect
    /\ problems' = [problems EXCEPT ![loc[p].problem].solvers =
                       SavedSolvers(@, loc[p])]
    /\ last' = Response(req[p], 200,
                        [success |-> TRUE, isCorrect |-> FALSE,
                         newScore |-> loc[p].score])
    /\ Finish(p)
    /\ UNCHANGED <<users, now, lastLogin>>

\* lines 166-168 without line 167
SavedUserScoreOnly(stored, l) == [stored EXCEPT !.score = l.score]

\* lines 166-168 without line 166
SavedUserDateOnly(stored, l) ==
    [stored EXCEPT !.latestQuizDate = l.latestQuizDate]

\* line 168: user.save() sets the two changed paths ($set) to the values of
\* the handler's copy
SavedUser(stored, l) ==
    [stored EXCEPT !.score = l.score, !.latestQuizDate = l.latestQuizDate]

\* lines 168-171
SolveSaveUser(p) ==
    /\ pc[p] = "solve_saveUser"
    /\ users' = [users EXCEPT ![loc[p].user] = SavedUser(@, loc[p])]
    /\ last' = Response(req[p], 200,
                        [success |-> TRUE, isCorrect |-> loc[p].isCorrect,
                         newScore |-> loc[p].score])
    /\ Finish(p)
    /\ UNCHANGED <<problems, now, lastLogin>>

(***************************************************************************)
(* Persistence failures: an awaited database call rejects, and the catch   *)
(* block of the handler answers 500.  Nothing is written by the call that  *)
(* fails, and nothing that an earlier call of the handler wrote is undone. *)
(***************************************************************************)
\* lines 172-174 if the catch block took the pushed record out again
SolveFailsRollback(p) ==
    /\ pc[p] \in {"solve_findUser", "solve_saveProblem", "solve_saveUser"}
    /\ last' = Response(req[p], 500, "error")
    /\ problems' = IF pc[p] = "solve_saveUser"
                   THEN [problems EXCEPT ![loc[p].problem].solvers =
                            SubSeq(@, 1, Len(@) - 1)]
                   ELSE problems
    /\ Finish(p)
    /\ UNCHANGED <<users, now, lastLogin>>

\* lines 144, 161, 168, 172-174: findById, problem.save() or user.save()
\* rejects
SolveFails(p) ==
    /\ pc[p] \in {"solve_findUser", "solve_saveProblem", "solve_saveUser"}
    /\ last' = Response(req[p], 500, "error")
    /\ Finish(p)
    /\ UNCHANGED <<users, problems, now, lastLogin>>

\* lines 72, 74, 81-82: User.create rejects
LoginCreateFails(p) ==
    /\ pc[p] = "login_create"
    /\ last' = Response(req[p], 500, "error")
    /\ Finish(p)
    /\ UNCHANGED <<users, problems, now, lastLogin>>

\* lines 66, 90, 104, 128, 142: the first awaited call of a handler rejects
FirstCallFails(p, r) ==
    /\ pc[p] = "idle"
    /\ last' = Response(r, 500, "error")
    /\ UNCHANGED <<users, problems, now, pc, req, loc, lastLogin>>

(***************************************************************************)
(* The server: any idle slot takes any request, any handler in flight      *)
(* takes its next step.  The workload W names the slots (procs), the       *)
(* <<name, isAdminInit>> pairs that login requests carry (logins), the     *)
(* <<id, password>> pairs that auth requests carry (auths), the            *)
(* <<date, question, answer>> triples that create requests carry           *)
(* (creates), the dates, the _ids and the answers that solve requests      *)
(* carry (dates, users, answers) and the number of solve requests that     *)
(* store a record (solves).                                                *)
(***************************************************************************)
\* the <<date, userId, answer>> triples of the solve requests of W: every
\* date and answer with every ObjectId, one request with the userId that is
\* none
SolveInputs(W) ==
    {x \in W.dates \X W.users \X W.answers :
        x[2] = MalformedId => x[1] = "d1" /\ x[3] = Num(7)}

Server(W) ==
    \E p \in W.procs :
        \/ LoginNoName(p, FALSE)
        \/ \E l \in W.logins : LoginFound(p, l[1], l[2])
        \/ \E l \in W.logins, t \in 0..MaxTime : LoginNotFound(p, l[1], l[2], t)
        \/ LoginCreate(p)
        \/ \E a \in W.auths : AdminAuth(p, a[1], a[2])
        \/ GetUsers(p)
        \/ \E c \in W.creates : CreateQuizInvalid(p, c[1], c[2], c[3])
        \/ \E c \in W.creates : CreateQuiz(p, c[1], c[2], c[3])
        \/ \E x \in SolveInputs(W) :
              SolveFindProblem(p, x[1], x[2], x[3], W.solves)
        \/ SolveCastError(p)
        \/ SolveNotFound(p)
        \/ SolveAlreadySolved(p)
        \/ SolveFindUser(p)
        \/ \E t \in 0..MaxTime : SolveSaveProblemCorrect(p, t)
        \/ SolveSaveProblemWrong(p)
        \/ SolveSaveUser(p)

\* every request, one quiz
Workload ==
    [procs |-> Procs, logins |-> Logins, auths |-> AuthInputs,
     dates |-> {"d1"}, users |-> UserIds, answers |-> SolveAnswers,
     creates |-> CreateInputs({"d1"}),
     solves |-> MaxSolves]

Next == Server(Workload)

Spec == Init /\ [][Next]_vars

\* one user name, two quizzes, three solve requests
TwoQuizWorkload ==
    [procs |-> Procs, logins |-> {<<<<"k">>, FALSE>>}, auths |-> AuthInputs,
     dates |-> Dates, users |-> {1, MalformedId}, answers |-> SolveAnswers,
     creates |-> CreateInputs(Dates),
     solves |-> MaxSolves + 1]

TwoQuizSpec == Init /\ [][Server(TwoQuizWorkload)]_vars

\* the admin and one user, auth requests of strings and of operators
OperatorWorkload ==
    [procs |-> Procs, logins |-> {<<AdminName, TRUE>>, <<<<"k">>, FALSE>>},
     auths |-> AuthInputs \cup AuthOperatorInputs, dates |-> {"d1"},
     users |-> {1, MalformedId}, answers |-> SolveAnswers, creates |-> CreateInputs({"d1"}),
     solves |-> MaxSolves]

OperatorSpec == Init /\ [][Server(OperatorWorkload)]_vars

\* one request at a time: every request, two quizzes, and as many solve
\* requests as there are pairs of a user and a quiz
SequentialWorkload ==
    [procs |-> {1}, logins |-> Logins,
     auths |-> {<<Eq(AdminUserId), Eq(AdminPassword)>>,
                <<Eq(AdminUserId), Eq("guess")>>}, dates |-> Dates,
     users |-> UserIds, answers |-> SolveAnswers,
     creates |-> CreateInputs(Dates),
     solves |-> MaxUsers * Cardinality(Dates) + 1]

SequentialSpec == Init /\ [][Server(SequentialWorkload)]_vars

\* one user, one quiz that can have the answer 0, answers that are numbers,
\* strings or absent
AnswerWorkload ==
    [procs |-> Procs, logins |-> {<<<<"k">>, FALSE>>},
     auths |-> {<<Eq(AdminUserId), Eq(AdminPassword)>>}, dates |-> {"d1"},
     users |-> {1, MalformedId}, answers |-> SolveAnswers \cup NonNumericAnswers \cup {Num(0)},
     creates |-> CreateInputs({"d1"}) \cup ZeroStringCreates,
     solves |-> MaxSolves]

AnswerSpec == Init /\ [][Server(AnswerWorkload)]_vars

\* the requests of the workload W that reach their first awaited call
AwaitingRequests(W) ==
    {LoginReq(l[1], l[2]) : l \in W.logins}
    \cup {AuthReq(a[1], a[2]) : a \in W.auths}
    \cup {[NoReq EXCEPT !.kind = "users"]}
    \cup {CreateReq(c[1], c[2], c[3]) :
             c \in {x \in W.creates : ~CreateInvalid(x[1], x[2], x[3])}}
    \cup {SolveReq(x[1], x[2], x[3]) : x \in SolveInputs(W)}

\* the server with a store whose calls can fail
FaultyServer(W) ==
    \/ Server(W)
    \/ \E p \in W.procs :
          \/ SolveFails(p)
          \/ LoginCreateFails(p)
          \/ \E r \in AwaitingRequests(W) : FirstCallFails(p, r)

\* the admin and one user, one quiz, every call can fail
FaultWorkload ==
    [procs |-> Procs, logins |-> {<<<<"k">>, FALSE>>, <<AdminName, TRUE>>},
     auths |-> {<<Eq(AdminUserId), Eq(AdminPassword)>>}, dates |-> {"d1"},
     users |-> UserIds, answers |-> SolveAnswers, creates |-> CreateInputs({"d1"}),
     solves |-> MaxSolves]

FaultSpec == Init /\ [][FaultyServer(FaultWorkload)]_vars

(***************************************************************************)
(* Properties.                                                             *)
(***************************************************************************)
\* the handler of p leaves position a in this step
Leaves(p, a) == pc[p] = a /\ pc'[p] # a

\* the handler of p takes its first step, for a solve request, in this step
Arrives(p) == pc[p] = "idle" /\ pc'[p] = "solve_findUser"

\* the positions in solvers of the records of user u
RecordsOf(solvers, u) == {k \in 1..Len(solvers) : solvers[k].userId = u}

UserExists(u) == u \in 1..Len(users)

\* the positions in problems of the quizzes of date d
QuizzesOf(d) == {i \in 1..Len(problems) : problems[i].date = d}

\* the request r submits the number that is the answer of quiz q
SubmitsAnswerOf(r, q) ==
    r.answer.type = "number" /\ q.answer.int /\ r.answer.num = q.answer.val

\* the request r submits a number that is not the answer of quiz q
SubmitsOtherThan(r, q) ==
    r.answer.type = "number" /\ (~q.answer.int \/ r.answer.num # q.answer.val)

\* the step changes no user document but u's and no quiz document but i's
OnlyUser(u) ==
    /\ Len(users') = Len(users)
    /\ \A v \in 1..Len(users) : v # u => users'[v] = users[v]

OnlyQuiz(i) ==
    /\ Len(problems') = Len(problems)
    /\ \A j \in 1..Len(problems) : j # i => problems'[j] = problems[j]

\* C1: in every reachable state, each quiz's solvers list holds at most one
\* record per user id.
C1_OneRecordPerUser ==
    \A i \in 1..Len(problems) : \A u \in UserRefs :
        Cardinality(RecordsOf(problems[i].solvers, u)) <= 1

\* C2: a solve request by an existing user U without a record in the existing
\* quiz Q that submits Q's answer goes on to store exactly one record
\* {userId = U, name = U.name, isCorrect = true} in Q and then, if no other
\* request has changed U's score since the handler read it, raises U's stored
\* score by exactly 1, sets latestQuizDate to a date and answers
\* {success: true, isCorrect: true, newScore: old score + 1}.
C2_CorrectSolve ==
    [][\A p \in Procs :
        LET r == req[p]
            l == loc[p]
            u == r.userId
            i == l.problem
        IN  /\ ( /\ Leaves(p, "solve_findUser")
                 /\ i # 0 /\ UserExists(u)
                 /\ RecordsOf(l.solvers, u) = {}
                 /\ SubmitsAnswerOf(r, problems[i]) )
               => /\ pc'[p] = "solve_saveProblem"
                  /\ UNCHANGED <<users, problems>>
            /\ ( /\ Leaves(p, "solve_saveProblem")
                 /\ SubmitsAnswerOf(r, problems[i]) )
               => /\ pc'[p] = "solve_saveUser"
                  /\ problems'[i].solvers =
                        Append(problems[i].solvers,
                               [userId |-> u, name |-> users[u].name,
                                isCorrect |-> TRUE])
                  /\ OnlyQuiz(i)
                  /\ UNCHANGED users
            /\ ( /\ Leaves(p, "solve_saveUser")
                 /\ SubmitsAnswerOf(r, problems[i])
                 /\ users[u].score = l.read )
               => /\ users'[u].score = users[u].score + 1
                  /\ users'[u].latestQuizDate # NoDate
                  /\ OnlyUser(u)
                  /\ UNCHANGED problems
                  /\ last'.kind = "solve" /\ last'.status = 200
                  /\ last'.body = [success |-> TRUE, isCorrect |-> TRUE,
                                   newScore |-> users[u].score + 1]
    ]_vars

\* a correct answer has been scored: the response, the one record, the score
C2_Witness ==
    /\ last.kind = "solve" /\ last.status = 200
    /\ last.body.isCorrect /\ last.body.newScore = 1
    /\ UserExists(last.req.userId)
    /\ users[last.req.userId].score = 1
    /\ users[last.req.userId].latestQuizDate # NoDate
    /\ \E i \in QuizzesOf(last.req.date) :
          /\ Cardinality(RecordsOf(problems[i].solvers, last.req.userId)) = 1
          /\ \A k \in RecordsOf(problems[i].solvers, last.req.userId) :
                problems[i].solvers[k].isCorrect

\* C3: a solve request by U that arrives when quiz Q holds a record of U
\* (correct or not), whatever it submits, is answered 400 (already solved),
\* and no step of its handler changes a quiz or a user.
C3_AlreadySolved ==
    [][\A p \in Procs :
        /\ Arrives(p) =>
              /\ UNCHANGED <<users, problems>>
              /\ \A i \in QuizzesOf(req'[p].date) :
                    RecordsOf(problems[i].solvers, req'[p].userId) # {}
                    => RecordsOf(loc'[p].solvers, req'[p].userId) # {}
        /\ ( /\ Leaves(p, "solve_findUser")
             /\ RecordsOf(loc[p].solvers, req[p].userId) # {} )
           => /\ pc'[p] = "idle"
              /\ last'.kind = "solve" /\ last'.status = 400
              /\ last'.req = req[p]
              /\ UNCHANGED <<users, problems>>
    ]_vars

\* a second attempt has been refused, after a correct and after a wrong one
C3_Witness ==
    /\ last.kind = "solve" /\ last.status = 400
    /\ \E i \in QuizzesOf(last.req.date) :
          RecordsOf(problems[i].solvers, last.req.userId) # {}

\* C4: a solve request by an existing user U without a record in the existing
\* quiz Q that submits an integer other than Q's answer stores exactly one
\* record of U with isCorrect = false in Q, changes no user, and answers
\* {success: true, isCorrect: false, newScore: the score of U that it read},
\* which is U's stored score unless another request has changed it since.
C4_WrongSolve ==
    [][\A p \in Procs :
        LET r == req[p]
            l == loc[p]
            u == r.userId
            i == l.problem
        IN  /\ ( /\ Leaves(p, "solve_findUser")
                 /\ i # 0 /\ UserExists(u)
                 /\ RecordsOf(l.solvers, u) = {}
                 /\ SubmitsOtherThan(r, problems[i]) )
               => /\ pc'[p] = "solve_saveProblem"
                  /\ loc'[p].read = users[u].score
                  /\ UNCHANGED <<users, problems>>
            /\ ( /\ Leaves(p, "solve_saveProblem")
                 /\ SubmitsOtherThan(r, problems[i]) )
               => /\ pc'[p] = "idle"
                  /\ problems'[i].solvers =
                        Append(problems[i].solvers,
                               [userId |-> u, name |-> users[u].name,
                                isCorrect |-> FALSE])
                  /\ OnlyQuiz(i)
                  /\ UNCHANGED users
                  /\ last'.kind = "solve" /\ last'.status = 200
                  /\ last'.body = [success |-> TRUE, isCorrect |-> FALSE,
                                   newScore |-> l.read]
                  /\ users[u].score = l.read
                        => last'.body.newScore = users'[u].score
    ]_vars

\* a wrong answer has been recorded and not scored
C4_Witness ==
    /\ last.kind = "solve" /\ last.status = 200
    /\ ~last.body.isCorrect /\ last.body.newScore = 0
    /\ users[last.req.userId].score = 0
    /\ users[last.req.userId].latestQuizDate = NoDate
    /\ \E i \in QuizzesOf(last.req.date) :
          \E k \in RecordsOf(problems[i].solvers, last.req.userId) :
              ~problems[i].solvers[k].isCorrect

\* C5: a solve request that finds no quiz of its date, or no user of its
\* userId, or neither, is answered 404, and no step of its handler changes a
\* quiz or a user.
C5_NotFound ==
    [][\A p \in Procs :
        /\ Arrives(p) =>
              /\ UNCHANGED <<users, problems>>
              /\ QuizzesOf(req'[p].date) = {} <=> loc'[p].problem = 0
        /\ ( /\ Leaves(p, "solve_findUser")
             /\ loc[p].problem = 0 \/ ~UserExists(req[p].userId) )
           => /\ pc'[p] = "idle"
              /\ last'.kind = "solve" /\ last'.status = 404
              /\ last'.req = req[p]
              /\ UNCHANGED <<users, problems>>
    ]_vars

\* the part of C5 that the code meets: with a userId that is an ObjectId,
\* 404 and no write when the quiz or the user is not found; with a userId
\* that is none, no write either
C5_NotFoundObjectId ==
    [][\A p \in Procs :
        /\ ( /\ Leaves(p, "solve_findUser")
             /\ ~CastObjectIdFails(req[p].userId)
             /\ loc[p].problem = 0 \/ ~UserExists(req[p].userId) )
           => /\ pc'[p] = "idle"
              /\ last'.kind = "solve" /\ last'.status = 404
              /\ last'.req = req[p]
              /\ UNCHANGED <<users, problems>>
        /\ ( /\ Leaves(p, "solve_findUser")
             /\ CastObjectIdFails(req[p].userId) )
           => /\ pc'[p] = "idle"
              /\ last'.kind = "solve" /\ last'.status = 500
              /\ UNCHANGED <<users, problems>>
    ]_vars

\* not found with the quiz there and the user not
C5_Witness ==
    /\ last.kind = "solve" /\ last.status = 404
    /\ QuizzesOf(last.req.date) # {}
    /\ ~UserExists(last.req.userId)
    /\ \A i \in 1..Len(problems) : problems[i].solvers = <<>>

\* not found with the user there and the quiz not
C5_WitnessNoQuiz ==
    /\ last.kind = "solve" /\ last.status = 404
    /\ QuizzesOf(last.req.date) = {}
    /\ UserExists(last.req.userId)

\* C6: no step lowers the stored score of a user.
C6_ScoreNeverLowered ==
    [][\A u \in 1..Len(users) : users'[u].score >= users[u].score]_vars

\* C7: a login that arrives after a login with the same name has returned a
\* user returns that same user.
C7_LoginSameUser ==
    (last.kind = "login" /\ last.status = 200 /\ last.prev # 0)
        => last.body._id = last.prev

\* a complete create request: date, question and answer are there
AllPresent(r) ==
    r.date # Missing /\ r.question # Missing /\ r.answer.type # "undefined"

\* at most one quiz per date
OneQuizPerDate ==
    \A i, j \in 1..Len(problems) :
        problems[i].date = problems[j].date => i = j

\* C8: a complete create request for a date that has a quiz is answered 409
\* (a create request that is not answered 201 has found the quizzes as they
\* are now), and there is at most one quiz per date.
C8_Conflict ==
    /\ OneQuizPerDate
    /\ ( /\ last.kind = "create" /\ last.status # 201
         /\ AllPresent(last.req)
         /\ QuizzesOf(last.req.date) # {} )
       => last.status = 409

\* C9: a create request is answered 400 exactly when date, question or answer
\* is absent.
C9_Validation ==
    last.kind = "create" => (last.status = 400 <=> ~AllPresent(last.req))

\* C10: the leaderboard lists exactly the users who are not admins, each once
\* and as stored, a higher score before a lower one and, of two equal scores
\* with a date, the earlier latestQuizDate first.  (Every step that changes
\* users sends a response, so users is what the latest response was made from.)
C10_Leaderboard ==
    last.kind = "users" =>
        LET b == last.body
        IN  /\ \A u \in 1..Len(users) :
                  ~users[u].isAdmin
                  <=> \E k \in 1..Len(b) : b[k]._id = u
            /\ \A j, k \in 1..Len(b) : b[j]._id = b[k]._id => j = k
            /\ \A k \in 1..Len(b) :
                  /\ b[k]._id \in 1..Len(users)
                  /\ b[k].score = users[b[k]._id].score
                  /\ b[k].latestQuizDate = users[b[k]._id].latestQuizDate
                  /\ b[k].name = users[b[k]._id].name
            /\ \A j, k \in 1..Len(b) :
                  b[j].score > b[k].score => j < k
            /\ \A j, k \in 1..Len(b) :
                  ( /\ b[j].score = b[k].score
                    /\ b[j].latestQuizDate # NoDate
                    /\ b[j].latestQuizDate < b[k].latestQuizDate )
                  => j < k

\* a leaderboard of two users in the reverse of their natural order, by date
C10_Witness ==
    /\ last.kind = "users" /\ Len(last.body) = 2
    /\ last.body[1]._id = 2
    /\ last.body[1].score = last.body[2].score
    /\ last.body[1].latestQuizDate # NoDate
    /\ last.body[1].latestQuizDate < last.body[2].latestQuizDate

\* a leaderboard of two users in the reverse of their natural order, by score
C10_WitnessScore ==
    /\ last.kind = "users" /\ Len(last.body) = 2
    /\ last.body[1]._id = 2
    /\ last.body[1].score > last.body[2].score

\* a leaderboard that leaves the admin out
C10_WitnessAdmin ==
    /\ last.kind = "users" /\ Len(last.body) = 1
    /\ Len(users) = 2
    /\ \E u \in 1..Len(users) : users[u].isAdmin

\* s is a prefix of t
IsPrefix(s, t) == Len(s) <= Len(t) /\ SubSeq(t, 1, Len(s)) = s

\* C11: no step deletes a quiz or changes the date, question or answer of
\* one, and every step leaves the solvers list of every quiz a prefix of what
\* it becomes.
C11_QuizFrame ==
    [][/\ Len(problems') >= Len(problems)
       /\ \A i \in 1..Len(problems) :
             /\ problems'[i].date = problems[i].date
             /\ problems'[i].question = problems[i].question
             /\ problems'[i].answer = problems[i].answer
             /\ IsPrefix(problems[i].solvers, problems'[i].solvers)
    ]_vars

\* two handlers that had both read the empty list have each appended a record
C11_Witness ==
    \E i \in 1..Len(problems) :
        /\ Len(problems[i].solvers) = 2
        /\ problems[i].solvers[1] # problems[i].solvers[2]
        /\ problems[i].solvers[1].userId = problems[i].solvers[2].userId

\* C12: in every reachable state no two user documents have the same name.
C12_UniqueNames ==
    \A i, j \in 1..Len(users) : users[i].name = users[j].name => i = j

\* the auth request r names the stored user i: userId, password and isAdmin
Authenticates(r, i) ==
    /\ r.id.op = "$eq" /\ users[i].userId = r.id.arg
    /\ r.password.op = "$eq" /\ users[i].password = r.password.arg
    /\ users[i].isAdmin

\* C13: an auth request is answered 200 exactly when some stored user has
\* its id as userId, its password as password and isAdmin = true, and 401
\* otherwise (every step that changes users sends a response, so users is
\* what the latest response was made from); the step that answers it changes
\* no user and no quiz.
C13_AdminAuth ==
    /\ [](last.kind = "auth" =>
            /\ last.status \in {200, 401}
            /\ last.status = 200
               <=> \E i \in 1..Len(users) : Authenticates(last.req, i))
    /\ [][(last'.kind = "auth" /\ last' # last)
             => UNCHANGED <<users, problems>>]_vars

\* the positions in solvers of the records of user u with isCorrect = true
CorrectRecordsOf(solvers, u) ==
    {k \in RecordsOf(solvers, u) : solvers[k].isCorrect}

\* C14 as stated: two solve requests of one user for one quiz, both with the
\* answer, that have both passed the check of line 149 before either saved
\* the quiz both append a record, and the score ends up raised twice: when
\* the second of them saves the user (its own record and the other's are
\* stored, and the other has raised the score that both had read), the
\* score goes up once more.
C14_BothPassThenTwice ==
    [][\A p \in Procs :
        LET l == loc[p]
            u == req[p].userId
            i == l.problem
        IN  ( /\ Leaves(p, "solve_saveUser")
              /\ l.raced
              /\ Cardinality(CorrectRecordsOf(problems[i].solvers, u)) >= 2
              /\ users[u].score = l.read + 1 )
            => users'[u].score = l.read + 2
    ]_vars

\* C14, amended: two solve requests of one user for one quiz, both with the
\* answer, that have both read the quiz before either saved it both append
\* a record.  A handler that has passed the check on its copy and saves the
\* quiz when the quiz already holds the other's correct record appends a
\* second one.  When it then saves the user, having read the score that the
\* other had already raised (it passed the check after the other's writes),
\* the stored score goes up by 1 again and is returned: the score is raised
\* twice for the one quiz, and the state so reached is C14_Witness.  When
\* both had passed the check before either saved the quiz, both have read
\* the same score, and the second to save the user leaves the score where
\* the first has put it: the score is raised once.
C14_DoubleCount ==
    [][\A p \in Procs :
        LET r == req[p]
            l == loc[p]
            u == r.userId
            i == l.problem
        IN  /\ ( /\ Leaves(p, "solve_saveProblem")
                 /\ l.isCorrect
                 /\ CorrectRecordsOf(problems[i].solvers, u) # {} )
               => /\ pc'[p] = "solve_saveUser"
                  /\ RecordsOf(l.solvers, u) = {}
                  /\ Cardinality(CorrectRecordsOf(problems'[i].solvers, u))
                       = Cardinality(CorrectRecordsOf(problems[i].solvers, u)) + 1
                  /\ IsPrefix(problems[i].solvers, problems'[i].solvers)
            /\ ( /\ Leaves(p, "solve_saveUser")
                 /\ Cardinality(CorrectRecordsOf(problems[i].solvers, u)) >= 2
                 /\ users[u].score = l.read )
               => /\ users'[u].score = users[u].score + 1
                  /\ UNCHANGED problems
                  /\ last'.status = 200
                  /\ last'.body.newScore = users[u].score + 1
            /\ ( /\ Leaves(p, "solve_saveUser")
                 /\ l.raced
                 /\ Cardinality(CorrectRecordsOf(problems[i].solvers, u)) >= 2
                 /\ users[u].score = l.read + 1 )
               => /\ users'[u].score = users[u].score
                  /\ UNCHANGED problems
                  /\ last'.status = 200
                  /\ last'.body.newScore = users[u].score
    ]_vars

\* both had passed the check before either saved the quiz: two correct
\* records of one user in the one quiz, and the user's score 1
C14_WitnessOnce ==
    /\ Len(problems) = 1
    /\ \E p \in Procs :
          /\ pc[p] = "solve_saveUser" /\ loc[p].raced
          /\ users[loc[p].user].score = 1 /\ loc[p].read = 0
          /\ Cardinality(CorrectRecordsOf(problems[1].solvers, loc[p].user)) = 2

\* one quiz, two correct records of one user in it, and the user's score 2
C14_Witness ==
    /\ Len(problems) = 1
    /\ \A p \in Procs : pc[p] = "idle"
    /\ last.kind = "solve" /\ last.status = 200
    /\ last.body.isCorrect /\ last.body.newScore = 2
    /\ users[last.req.userId].score = 2
    /\ Cardinality(CorrectRecordsOf(problems[1].solvers, last.req.userId)) = 2
    /\ Len(problems[1].solvers) = 2

\* C15: a correct solve whose user.save() fails, after its record has been
\* stored, is answered 500; the record with isCorrect = true stays in the
\* quiz, no user document changes (score and latestQuizDate stay as they
\* were) and no quiz changes.  A correct solve whose problem.save() fails is
\* answered 500 and changes neither quiz nor user.
C15_NoRollback ==
    [][\A p \in Procs :
        LET r == req[p]
            l == loc[p]
            u == r.userId
            i == l.problem
        IN  /\ ( /\ Leaves(p, "solve_saveUser")
                 /\ last'.status # 200 )
               => /\ last'.kind = "solve" /\ last'.status = 500
                  /\ last'.req = r
                  /\ l.isCorrect
                  /\ UNCHANGED <<users, problems>>
                  /\ \E k \in CorrectRecordsOf(problems'[i].solvers, u) :
                        problems'[i].solvers[k].name = users'[u].name
            /\ ( /\ Leaves(p, "solve_saveProblem")
                 /\ l.isCorrect
                 /\ problems' = problems )
               => /\ last'.kind = "solve" /\ last'.status = 500
                  /\ last'.req = r
                  /\ pc'[p] = "idle"
                  /\ UNCHANGED users
    ]_vars

\* the two records diverge: a solve was answered 500, the quiz holds the
\* user's correct record, the user's score is 0 and latestQuizDate is null
C15_Witness ==
    /\ \A p \in Procs : pc[p] = "idle"
    /\ last.kind = "solve" /\ last.status = 500
    /\ UserExists(last.req.userId)
    /\ users[last.req.userId].score = 0
    /\ users[last.req.userId].latestQuizDate = NoDate
    /\ \E i \in QuizzesOf(last.req.date) :
          /\ Len(problems[i].solvers) = 1
          /\ CorrectRecordsOf(problems[i].solvers, last.req.userId) = {1}

\* the append itself has failed: a solve with the answer was answered 500 and
\* the quiz holds no record
C15_WitnessAppend ==
    /\ \A p \in Procs : pc[p] = "idle"
    /\ last.kind = "solve" /\ last.status = 500
    /\ UserExists(last.req.userId)
    /\ users[last.req.userId].score = 0
    /\ \E i \in QuizzesOf(last.req.date) :
          /\ problems[i].solvers = <<>>
          /\ SubmitsAnswerOf(last.req, problems[i])

\* the records of user u with isCorrect = true in the first i quizzes
RECURSIVE CorrectCount(_, _)
CorrectCount(u, i) ==
    IF i = 0 THEN 0
    ELSE Cardinality(CorrectRecordsOf(problems[i].solvers, u))
           + CorrectCount(u, i - 1)

\* C16: when requests are handled one at a time and no call fails, then,
\* between two requests, the score of every user is the number of records
\* with isCorrect = true that name the user, over all quizzes.
C16_ScoreIsCorrectCount ==
    (\A p \in Procs : pc[p] = "idle")
        => \A u \in 1..Len(users) :
              users[u].score = CorrectCount(u, Len(problems))

\* a user with a correct record in each of two quizzes and score 2, beside a
\* user with a wrong record
C16_Witness ==
    /\ \A p \in Procs : pc[p] = "idle"
    /\ Len(problems) = 2
    /\ \E u, v \in 1..Len(users) :
          /\ users[u].score = 2
          /\ CorrectCount(u, Len(problems)) = 2
          /\ users[v].score = 0
          /\ \E i \in 1..Len(problems) :
                \E k \in RecordsOf(problems[i].solvers, v) :
                    ~problems[i].solvers[k].isCorrect

\* C17: in every reachable state, also with requests in flight together and
\* with failing calls, a user has a latestQuizDate exactly when the user's
\* score is at least 1.
C17_DateIffScored ==
    \A u \in 1..Len(users) :
        users[u].latestQuizDate # NoDate <=> users[u].score >= 1

\* a scored user with a date while, after a user.save() that failed, the
\* quiz holds two correct records
C17_Witness ==
    /\ last.kind = "solve" /\ last.status = 500
    /\ \E u \in 1..Len(users) :
          /\ users[u].score = 1
          /\ users[u].latestQuizDate # NoDate
          /\ \E i \in 1..Len(problems) :
                Cardinality(CorrectRecordsOf(problems[i].solvers, u)) = 2

\* the _ids of the admins
Admins == {i \in 1..Len(users) : users[i].isAdmin}

\* C18: in every reachable state at most one user is an admin, and that user
\* has the userId '1234aa' and the reserved name; no step changes the isAdmin
\* flag of a user; an admin is only ever created by a login request with the
\* reserved name and isAdminInit; and such a request that reaches User.create
\* when the admin exists is answered 500 and creates nobody.
C18_OneAdmin ==
    /\ [](/\ Cardinality(Admins) <= 1
          /\ \A i \in Admins :
                users[i].userId = AdminUserId /\ users[i].name = AdminName)
    /\ [][/\ Len(users') >= Len(users)
          /\ \A i \in 1..Len(users) : users'[i].isAdmin = users[i].isAdmin
          /\ \A i \in 1..Len(users') :
                (i > Len(users) /\ users'[i].isAdmin)
                => \E p \in Procs :
                      /\ Leaves(p, "login_create")
                      /\ req[p].name = AdminName /\ req[p].isAdminInit
          /\ \A p \in Procs :
                ( /\ Leaves(p, "login_create")
                  /\ req[p].name = AdminName /\ req[p].isAdminInit
                  /\ Admins # {} )
                => /\ last'.kind = "login" /\ last'.status = 500
                   /\ UNCHANGED users
      ]_vars

\* the second of two bootstrap logins in flight together has been refused
C18_Witness ==
    /\ last.kind = "login" /\ last.status = 500
    /\ last.req.name = AdminName /\ last.req.isAdminInit
    /\ Cardinality(Admins) = 1
    /\ Len(users) = 1

\* the submitted answer is a number, or a string of decimal digits only
IsNumeric(v) ==
    \/ v.type = "number"
    \/ /\ v.type = "string"
       /\ v.str # <<>>
       /\ \A k \in 1..Len(v.str) : IsDigit(v.str[k])

\* C19: a solve request whose answer is not numeric (a string with a
\* character that is no digit, or no answer at all) is recorded with
\* isCorrect = false, answered isCorrect = false, and changes no user.
C19_NonNumeric ==
    [][\A p \in Procs :
        ( /\ Leaves(p, "solve_saveProblem")
          /\ ~IsNumeric(req[p].answer) )
        => /\ pc'[p] = "idle"
           /\ problems'[loc[p].problem].solvers =
                 Append(problems[loc[p].problem].solvers,
                        [userId |-> req[p].userId, name |-> loc[p].name,
                         isCorrect |-> FALSE])
           /\ last'.kind = "solve" /\ last'.status = 200
           /\ ~last'.body.isCorrect
           /\ UNCHANGED users
    ]_vars

\* the part of C19 that the code meets: an answer without a leading number
\* (parseInt gives NaN) is recorded with isCorrect = false and not scored
C19_NoLeadingDigits ==
    [][\A p \in Procs :
        ( /\ Leaves(p, "solve_saveProblem")
          /\ ParseInt(req[p].answer).nan )
        => /\ pc'[p] = "idle"
           /\ last'.kind = "solve" /\ last'.status = 200
           /\ ~last'.body.isCorrect
           /\ UNCHANGED users
    ]_vars

====
